---- MODULE Spec2Model ----
(***************************************************************************)
(* Model of the BitNet ordered-dithering engine (src/src/bitnet_dithering  *)
(* .cpp).  The engine state is the three file-scope globals; every API     *)
(* function is one action.  A call that takes a buffer leaves a record of  *)
(* its arguments, of the memory it was given and of the memory it left     *)
(* behind in `call`, until the caller releases the buffer.                 *)
(*                                                                         *)
(* Numbers.  float values are modelled in fixed point:                     *)
(*   - buffer values on entry are whole numbers (0.0, 1.0, 2.0);           *)
(*   - a configured strength s is the integer 20*s  (0.05 = 1, 0.1 = 2);   *)
(*   - complexity and the adaptive factor are in thousandths;              *)
(*   - a resolved strength is in units of 1/(20*1000);                     *)
(*   - Bayer thresholds are in 64ths (0.5 = 32);                           *)
(*   - buffer values on exit are in units of 1/(64*20*1000).               *)
(***************************************************************************)
EXTENDS Integers, Sequences, FiniteSets, TLC

VARIABLES g_dithering_config, g_dithering_metrics, g_dithering_initialized, call

vars == <<g_dithering_config, g_dithering_metrics, g_dithering_initialized, call>>

(* ---------------------------------------------------------------- bounds *)
\* longest buffer enumerated element by element
MaxLen == 2
\* number of complete pattern tiles in the long buffers
MaxTiles == 1
\* largest hidden_size enumerated (besides hidden_size = size)
MaxHidden == 4
\* largest sequence_length enumerated
MaxSeq == 3

(* ----------------------------------------------------------------- units *)
StrengthDen == 20
FactorDen == 1000
PatDen == 64
DataScale == PatDen * StrengthDen * FactorDen
LogOne == 1024
MantOne == 16384
LogBits == 10

(* ------------------------------------------------------------ input sets *)
Vals == {0, 1}
TailVals == {0, 2}
Strengths == {2, 20}
PatternSizes == {4, 8, 5}

Configs ==
    [enable_dithering : BOOLEAN, dithering_strength : Strengths,
     bayer_matrix_size : PatternSizes, adaptive_strength : BOOLEAN,
     resolution_enhancement : BOOLEAN]

\* BitNetDitheringConfig default member initializers
DefaultConfig ==
    [enable_dithering |-> TRUE, dithering_strength |-> 2,
     bayer_matrix_size |-> 4, adaptive_strength |-> TRUE,
     resolution_enhancement |-> TRUE]

\* a const BitNetDitheringConfig* argument: null, or pointing at a value
NullConfig == [null |-> TRUE, v |-> DefaultConfig]
Ptr(c) == [null |-> FALSE, v |-> c]
ConfigPtrs == {NullConfig} \cup {Ptr(c) : c \in Configs}

\* static BitNetDitheringMetrics: zero-initialized static storage
ZeroMetrics ==
    [inference_speed_ratio |-> 0, quality_improvement_ratio |-> 0,
     memory_overhead |-> 0, perplexity_improvement |-> 0]

\* the metrics bitnet_dithering_init installs (thousandths)
InitMetrics ==
    [inference_speed_ratio |-> 1000, quality_improvement_ratio |-> 0,
     memory_overhead |-> 0, perplexity_improvement |-> 0]

Ramp(n) == [i \in 1..n |-> (i - 1) % 3]
Step(n) == [i \in 1..n |-> IF 2 * i <= n THEN 0 ELSE i % 3]

\* every buffer of at most MaxLen elements
ShortBufs == UNION {[1..n -> Vals] : n \in 0..MaxLen}
\* the buffer of the worked example
ExampleBufs == {<<1, 1, 1, 1>>}
\* two tokens of h elements, the first constant and the second not
StepBufs == {Step(2 * h) : h \in 2..MaxHidden}
\* complete tiles of the 4x4 table, and one element more
Tile4Bufs == {Ramp(k * 16 + r) : k \in 1..MaxTiles, r \in {0, 1}}
\* complete tiles of the 8x8 table, and one element more
Tile8Bufs == {Ramp(k * 64 + r) : k \in 1..MaxTiles, r \in {0, 1}}
Buffers == ShortBufs \cup ExampleBufs \cup StepBufs \cup Tile4Bufs
PatternBufs == Buffers \cup Tile8Bufs

(* ---------------------------------------------------------------- tables *)
\* BAYER_4X4[k] = n/16, held as 4n/64
BAYER_4X4 ==
    [k \in 1..16 |->
        4 * <<0, 8, 2, 10, 12, 4, 14, 6, 3, 11, 1, 9, 15, 7, 13, 5>>[k]]

\* BAYER_8X8[k] = n/64, held as n
BAYER_8X8 ==
    <<0, 32, 8, 40, 2, 34, 10, 42,
      48, 16, 56, 24, 50, 18, 58, 26,
      12, 44, 4, 36, 14, 46, 6, 38,
      60, 28, 52, 20, 62, 30, 54, 22,
      3, 35, 11, 43, 1, 33, 9, 41,
      49, 17, 57, 25, 51, 19, 59, 27,
      15, 47, 7, 39, 13, 45, 5, 37,
      63, 31, 55, 23, 61, 29, 53, 21>>

(* --------------------------------------------------------------- helpers *)
Min(a, b) == IF b < a THEN b ELSE a
Max(a, b) == IF a < b THEN b ELSE a

\* the sum f[lo] + ... + f[hi], by halves
RECURSIVE SumRange(_, _, _)
SumRange(f, lo, hi) ==
    IF hi < lo THEN 0
    ELSE IF lo = hi THEN f[lo]
    ELSE LET mid == (lo + hi) \div 2
         IN SumRange(f, lo, mid) + SumRange(f, mid + 1, hi)

SumTo(f, n) == SumRange(f, 1, n)

\* the running std::min / std::max over weights[0..n-1]
MinTo(f, n) == CHOOSE x \in {f[i] : i \in 1..n} : \A y \in {f[i] : i \in 1..n} : ~(y < x)
MaxTo(f, n) == CHOOSE x \in {f[i] : i \in 1..n} : \A y \in {f[i] : i \in 1..n} : ~(x < y)

\* a buffer of whole numbers in the units buffers are written in
Fine(w) == [i \in 1..Len(w) |-> w[i] * DataScale]

(* std::log2 of a positive integer, in units of 1/LogOne: the exponent, then
   LogBits fraction bits by repeated squaring of the mantissa *)
RECURSIVE FloorLog2(_)
FloorLog2(m) == IF m < 2 THEN 0 ELSE 1 + FloorLog2(m \div 2)

RECURSIVE Pow2(_)
Pow2(e) == IF e = 0 THEN 1 ELSE 2 * Pow2(e - 1)

RECURSIVE LogFrac(_, _)
LogFrac(x, bits) ==
    IF bits = 0 THEN 0
    ELSE LET y == (x * x) \div MantOne
         IN IF y >= 2 * MantOne
               THEN Pow2(bits - 1) + LogFrac(y \div 2, bits - 1)
               ELSE LogFrac(y, bits - 1)

Log2(m) ==
    LET e == FloorLog2(m)
    IN e * LogOne + LogFrac((m * MantOne) \div Pow2(e), LogBits)

(* ------------------------------------------------- complexity estimator *)
NumBins == 32

\* the histogram bin of one value: static_cast<int>(...) then the clamp
HistogramBin(w, min_val, range) ==
    Max(0, Min(NumBins - 1, ((w - min_val) * (NumBins - 1)) \div range))

\* bitnet_calculate_content_complexity, in thousandths
bitnet_calculate_content_complexity(weights, size) ==
    IF size <= 0 THEN 0
    ELSE
      LET total == SumTo(weights, size)
          \* diff = weights[i] - mean, held as size * diff
          sq == [i \in 1..size |->
                    (size * weights[i] - total) * (size * weights[i] - total)]
          variance == ((SumTo(sq, size) \div size) * FactorDen) \div (size * size)
          min_val == MinTo(weights, size)
          max_val == MaxTo(weights, size)
          range == max_val - min_val
          bin == [i \in 1..size |->
                     IF range > 0 THEN HistogramBin(weights[i], min_val, range) ELSE 0]
          histogram ==
              [b \in 0..(NumBins - 1) |->
                  IF range > 0
                     THEN Cardinality({i \in 1..size : bin[i] = b})
                     ELSE 0]
          \* -p*log2(p) with p = histogram[b]/size, held as size*LogOne times it
          term == [k \in 1..NumBins |->
                      IF histogram[k - 1] > 0
                         THEN histogram[k - 1] * (Log2(size) - Log2(histogram[k - 1]))
                         ELSE 0]
          entropy == (SumTo(term, NumBins) * FactorDen) \div (size * LogOne)
      IN (variance * 6 + entropy * 4) \div 10

(* ---------------------------------------------- adaptive strength (4.3) *)
\* adaptive_factor before the clamp: 1.0f + (complexity - 0.1f) * 2.0f
AdaptiveFactor(complexity) == FactorDen + (complexity - 100) * 2

\* std::max(0.5f, std::min(2.0f, adaptive_factor))
ClampFactor(adaptive_factor) == Max(500, Min(2000, adaptive_factor))

\* without the clamp
bitnet_calculate_adaptive_strength_unclamped(weights, size) ==
    IF ~g_dithering_config.adaptive_strength
       THEN g_dithering_config.dithering_strength * FactorDen
       ELSE g_dithering_config.dithering_strength
              * AdaptiveFactor(bitnet_calculate_content_complexity(weights, size))

\* bitnet_calculate_adaptive_strength: reads the global config; the result is
\* in units of 1/(StrengthDen*FactorDen)
bitnet_calculate_adaptive_strength(weights, size) ==
    IF ~g_dithering_config.adaptive_strength
       THEN g_dithering_config.dithering_strength * FactorDen
       ELSE g_dithering_config.dithering_strength
              * ClampFactor(AdaptiveFactor(
                    bitnet_calculate_content_complexity(weights, size)))

(* ------------------------------------------------- ordered dither (4.5) *)
\* the column alone, the row term dropped
BayerIdxColumnOnly(i, matrix_size) == i % matrix_size

\* row = (i / matrix_size) % matrix_size; col = i % matrix_size;
\* bayer_idx = row * matrix_size + col
BayerIdx(i, matrix_size) ==
    ((i \div matrix_size) % matrix_size) * matrix_size + (i % matrix_size)

\* noise without the - 0.5f centring
NoiseUncentred(t, strength) == t * strength

\* noise = (bayer_matrix[bayer_idx] - 0.5f) * strength
Noise(t, strength) == (t - (PatDen \div 2)) * strength

\* bitnet_ordered_dither: data in output units, strength resolved
bitnet_ordered_dither(data, size, bayer_matrix, matrix_size, strength) ==
    [i \in 1..size |->
        data[i] + Noise(bayer_matrix[BayerIdx(i - 1, matrix_size) + 1], strength)]

\* the table and size bitnet_apply_ordered_dithering chooses
ChosenSize(config) == IF config.bayer_matrix_size = 8 THEN 8 ELSE 4
ChosenMatrix(config) == IF config.bayer_matrix_size = 8 THEN BAYER_8X8 ELSE BAYER_4X4

\* without the null / enable_dithering test
bitnet_apply_ordered_dithering_unguarded(weights, size, config) ==
    LET strength ==
            IF config.v.adaptive_strength
               THEN bitnet_calculate_adaptive_strength(weights, size)
               ELSE config.v.dithering_strength * FactorDen
    IN [data |-> bitnet_ordered_dither(Fine(weights), size, ChosenMatrix(config.v),
                                       ChosenSize(config.v), strength),
        touched |-> 0..(size - 1)]

\* bitnet_apply_ordered_dithering on the size elements `weights` (layer_idx is
\* unused by the code): the memory afterwards and the offsets it accessed
bitnet_apply_ordered_dithering(weights, size, config) ==
    IF config.null \/ ~config.v.enable_dithering
       THEN [data |-> Fine(weights), touched |-> {}]
       ELSE
         LET strength ==
                 IF config.v.adaptive_strength
                    THEN bitnet_calculate_adaptive_strength(weights, size)
                    ELSE config.v.dithering_strength * FactorDen
         IN [data |-> bitnet_ordered_dither(Fine(weights), size,
                          ChosenMatrix(config.v), ChosenSize(config.v), strength),
             touched |-> 0..(size - 1)]

(* ------------------------------------------------------ the call record *)
\* the engine state a call found
Engine ==
    [config |-> g_dithering_config, metrics |-> g_dithering_metrics,
     initialized |-> g_dithering_initialized]

LifecycleOps == {"init", "cleanup", "setConfig"}

\* no call outstanding
NoCall ==
    [op |-> "none", live |-> FALSE, prev |-> "none",
     pre |-> [config |-> DefaultConfig, metrics |-> ZeroMetrics, initialized |-> FALSE],
     weights |-> <<>>, tail |-> <<>>, cfg |-> NullConfig, strength |-> 0,
     matrix_size |-> 0, sequence_length |-> 0, hidden_size |-> 0,
     data |-> <<>>, touched |-> {}, ret |-> 0]

\* a call in progress: its name and the engine state it found
Called(op) ==
    [NoCall EXCEPT !.op = op, !.live = TRUE, !.pre = Engine]

\* a lifecycle call in progress: also the lifecycle call it follows, if any
Lifecycle(op) == [Called(op) EXCEPT !.prev = call.op]

(* ------------------------------------------------------------- lifecycle *)
Init ==
    /\ g_dithering_config = DefaultConfig
    /\ g_dithering_metrics = ZeroMetrics
    /\ g_dithering_initialized = FALSE
    /\ call = NoCall

\* init that keeps whatever configuration it finds
bitnet_dithering_init_stale ==
    /\ ~call.live
    /\ g_dithering_initialized' = TRUE
    /\ UNCHANGED <<g_dithering_config, g_dithering_metrics>>
    /\ call' = Lifecycle("init")

\* init without the already-initialized test
bitnet_dithering_init_always ==
    /\ ~call.live
    /\ g_dithering_config' = DefaultConfig
    /\ g_dithering_metrics' = InitMetrics
    /\ g_dithering_initialized' = TRUE
    /\ call' = Lifecycle("init")

bitnet_dithering_init ==
    /\ ~call.live
    /\ IF g_dithering_initialized
          THEN UNCHANGED <<g_dithering_config, g_dithering_metrics,
                           g_dithering_initialized>>
          ELSE /\ g_dithering_config' = DefaultConfig
               /\ g_dithering_metrics' = InitMetrics
               /\ g_dithering_initialized' = TRUE
    /\ call' = Lifecycle("init")

bitnet_dithering_cleanup ==
    /\ ~call.live
    /\ g_dithering_initialized' = FALSE
    /\ UNCHANGED <<g_dithering_config, g_dithering_metrics>>
    /\ call' = Lifecycle("cleanup")

bitnet_set_dithering_config ==
    \E config \in ConfigPtrs :
        /\ ~call.live
        /\ g_dithering_config' = IF config.null THEN g_dithering_config ELSE config.v
        /\ UNCHANGED <<g_dithering_metrics, g_dithering_initialized>>
        /\ call' = [Lifecycle("setConfig") EXCEPT !.cfg = config]

bitnet_get_dithering_config ==
    /\ ~call.live
    /\ UNCHANGED <<g_dithering_config, g_dithering_metrics, g_dithering_initialized>>
    /\ call' = [Called("getConfig") EXCEPT !.cfg = Ptr(g_dithering_config)]

\* the caller is done with the result of the call (and with its buffer, which
\* the engine never keeps); what stays known is the last lifecycle call
Release ==
    /\ call.live
    /\ call' = [NoCall EXCEPT
                  !.op = IF call.op \in LifecycleOps THEN call.op ELSE "none"]
    /\ UNCHANGED <<g_dithering_config, g_dithering_metrics, g_dithering_initialized>>

(* ------------------------------------------------------ buffer operations *)
CalculateAdaptiveStrength ==
    \E weights \in Buffers :
        /\ ~call.live
        /\ call' = [Called("calculateAdaptiveStrength") EXCEPT
                      !.weights = weights,
                      !.data = Fine(weights),
                      !.ret = bitnet_calculate_adaptive_strength(weights, Len(weights))]
        /\ UNCHANGED <<g_dithering_config, g_dithering_metrics, g_dithering_initialized>>

OrderedDither ==
    \E weights \in PatternBufs, matrix_size \in {4, 8}, strength \in Strengths :
        /\ ~call.live
        /\ call' = [Called("orderedDither") EXCEPT
                      !.weights = weights,
                      !.matrix_size = matrix_size,
                      !.strength = strength,
                      !.data = bitnet_ordered_dither(Fine(weights), Len(weights),
                                   IF matrix_size = 8 THEN BAYER_8X8 ELSE BAYER_4X4,
                                   matrix_size, strength * FactorDen),
                      !.touched = 0..(Len(weights) - 1)]
        /\ UNCHANGED <<g_dithering_config, g_dithering_metrics, g_dithering_initialized>>

ApplyOrderedDithering ==
    \E weights \in Buffers, config \in ConfigPtrs :
        /\ ~call.live
        /\ LET r == bitnet_apply_ordered_dithering(weights, Len(weights), config)
           IN call' = [Called("applyOrderedDithering") EXCEPT
                         !.weights = weights, !.cfg = config,
                         !.data = r.data, !.touched = r.touched]
        /\ UNCHANGED <<g_dithering_config, g_dithering_metrics, g_dithering_initialized>>

\* bitnet_apply_resolution_dithering
bitnet_apply_resolution_dithering(weights, size, scale) ==
    IF ~g_dithering_initialized \/ ~g_dithering_config.resolution_enhancement
       THEN [data |-> Fine(weights), touched |-> {}]
       ELSE
         LET config == [g_dithering_config EXCEPT
                          !.dithering_strength = scale, !.bayer_matrix_size = 8]
         IN bitnet_apply_ordered_dithering(weights, size, Ptr(config))

ApplyResolutionDithering ==
    \E weights \in Buffers, scale \in Strengths :
        /\ ~call.live
        /\ LET r == bitnet_apply_resolution_dithering(weights, Len(weights), scale)
           IN call' = [Called("applyResolutionDithering") EXCEPT
                         !.weights = weights, !.strength = scale,
                         !.data = r.data, !.touched = r.touched]
        /\ UNCHANGED <<g_dithering_config, g_dithering_metrics, g_dithering_initialized>>

(* ------------------------------------------- layer strategy dispatcher *)
\* the for loop of the per-token branch, from offset i on.  `activations` is
\* the memory at the pointer as the call found it (the caller's size elements,
\* then whatever lies behind them), `out` the memory as written so far.  The
\* segments are disjoint, so each is read before anything is written to it.
RECURSIVE TokenLoop(_, _, _, _, _, _, _)
TokenLoop(activations, out, touched, i, size, elements_per_token, config) ==
    IF ~(i < size) THEN [data |-> out, touched |-> touched]
    ELSE
      LET r == bitnet_apply_ordered_dithering(
                   SubSeq(activations, i + 1, i + elements_per_token),
                   elements_per_token, config)
      IN TokenLoop(activations,
                   [k \in 1..Len(out) |->
                       IF k > i /\ k <= i + elements_per_token
                          THEN r.data[k - i] ELSE out[k]],
                   touched \cup {i + o : o \in r.touched},
                   i + elements_per_token, size, elements_per_token, config)

\* bitnet_enhance_resolution_dithering
bitnet_enhance_resolution_dithering(activations, size, sequence_length, hidden_size) ==
    IF ~g_dithering_initialized \/ ~g_dithering_config.resolution_enhancement
       THEN [data |-> Fine(activations), touched |-> {}]
       ELSE
         LET elements_per_token == hidden_size
             total_tokens == size \div elements_per_token
         IN IF total_tokens = sequence_length
               THEN TokenLoop(activations, Fine(activations), {}, 0, size,
                              elements_per_token,
                              Ptr([g_dithering_config EXCEPT
                                     !.dithering_strength = 1,
                                     !.bayer_matrix_size = 8]))
               ELSE
                 LET r == bitnet_apply_ordered_dithering(
                              SubSeq(activations, 1, size), size,
                              Ptr(g_dithering_config))
                 IN [data |-> r.data \o SubSeq(Fine(activations), size + 1,
                                               Len(activations)),
                     touched |-> r.touched]

\* how far the per-token loop runs past the size elements of the caller
Overrun(size, sequence_length, hidden_size) ==
    IF /\ g_dithering_initialized
       /\ g_dithering_config.resolution_enhancement
       /\ size \div hidden_size = sequence_length
       /\ size % hidden_size # 0
       THEN hidden_size - (size % hidden_size)
       ELSE 0

HiddenSizes(weights) == (1..MaxHidden) \cup ({Len(weights)} \ {0})

EnhanceResolutionDithering ==
    \E weights \in Buffers, sequence_length \in 0..MaxSeq :
      \E hidden_size \in HiddenSizes(weights) :
        \E tail \in [1..Overrun(Len(weights), sequence_length, hidden_size) -> TailVals] :
          /\ ~call.live
          /\ LET r == bitnet_enhance_resolution_dithering(
                          weights \o tail, Len(weights), sequence_length, hidden_size)
             IN call' = [Called("enhanceResolutionDithering") EXCEPT
                           !.weights = weights, !.tail = tail,
                           !.sequence_length = sequence_length,
                           !.hidden_size = hidden_size,
                           !.data = r.data, !.touched = r.touched]
          /\ UNCHANGED <<g_dithering_config, g_dithering_metrics,
                         g_dithering_initialized>>

(* ---------------------------------------------------------- specification *)
Next ==
    \/ bitnet_dithering_init
    \/ bitnet_dithering_cleanup
    \/ bitnet_set_dithering_config
    \/ bitnet_get_dithering_config
    \/ CalculateAdaptiveStrength
    \/ OrderedDither
    \/ ApplyOrderedDithering
    \/ ApplyResolutionDithering
    \/ EnhanceResolutionDithering
    \/ Release

Spec == Init /\ [][Next]_vars

(* ------------------------------------------------------------ properties *)
\* the memory of the outstanding call as the call found it
Before == Fine(call.weights \o call.tail)

Sum(s) == SumTo(s, Len(s))

Table(matrix_size) == IF matrix_size = 8 THEN BAYER_8X8 ELSE BAYER_4X4

\* the strength section 4.3 resolves from a base strength and a buffer alone
Resolved(base, adaptive, weights) ==
    IF adaptive
       THEN base * ClampFactor(AdaptiveFactor(
                       bitnet_calculate_content_complexity(weights, Len(weights))))
       ELSE base * FactorDen

MutatingOps ==
    {"orderedDither", "applyOrderedDithering", "applyResolutionDithering",
     "enhanceResolutionDithering"}

\* C1: with initialized = false, every buffer-mutating entry point returns
\* with every element of the caller's buffer unchanged.
C1_UninitializedIsNoOp ==
    (call.live /\ call.op \in MutatingOps /\ ~g_dithering_initialized)
        => call.data = Before

\* C2 as stated: over a buffer of complete tiles applyOrderedDither adds
\* offsets whose sum is exactly 0.
C2_OffsetsSumToZero ==
    (/\ call.live
     /\ call.op = "orderedDither"
     /\ Len(call.weights) % (call.matrix_size * call.matrix_size) = 0)
        => Sum(call.data) = Sum(Before)

\* C2 amended: over a buffer of complete tiles applyOrderedDither adds
\* offsets whose sum is exactly -0.5 * strength for each complete tile.
C2_OffsetsSumPerTile ==
    (/\ call.live
     /\ call.op = "orderedDither"
     /\ Len(call.weights) % (call.matrix_size * call.matrix_size) = 0)
        => Sum(call.data) - Sum(Before)
             = - (PatDen \div 2) * (call.strength * FactorDen)
                 * (Len(call.weights) \div (call.matrix_size * call.matrix_size))

C2_Witness ==
    /\ call.live
    /\ call.op = "orderedDither"
    /\ call.matrix_size = 8
    /\ Len(call.weights) = 64
    /\ Sum(call.data) # Sum(Before)

\* C3: applyOrderedDithering with an enabled config dithers with the strength
\* resolved from the passed config and the buffer only, and
\* applyResolutionDithering dithers with base strength scale.
C3_StrengthFromPassedConfig ==
    /\ (/\ call.live
        /\ call.op = "applyOrderedDithering"
        /\ ~call.cfg.null
        /\ call.cfg.v.enable_dithering)
          => call.data =
               bitnet_ordered_dither(Before, Len(call.weights),
                   ChosenMatrix(call.cfg.v), ChosenSize(call.cfg.v),
                   Resolved(call.cfg.v.dithering_strength,
                            call.cfg.v.adaptive_strength, call.weights))
    /\ (/\ call.live
        /\ call.op = "applyResolutionDithering"
        /\ call.pre.initialized
        /\ call.pre.config.resolution_enhancement
        /\ call.pre.config.enable_dithering)
          => call.data =
               bitnet_ordered_dither(Before, Len(call.weights), BAYER_8X8, 8,
                   Resolved(call.strength, call.pre.config.adaptive_strength,
                            call.weights))

\* C4: calculateAdaptiveStrength returns r with 0.5*base <= r <= 2.0*base,
\* base being the configured strength, adaptive strength on or off.
C4_AdaptiveStrengthBounded ==
    (call.live /\ call.op = "calculateAdaptiveStrength")
        => /\ 2 * call.ret >= g_dithering_config.dithering_strength * FactorDen
           /\ call.ret <= 2 * g_dithering_config.dithering_strength * FactorDen

C4_Witness ==
    /\ call.live
    /\ call.op = "calculateAdaptiveStrength"
    /\ g_dithering_config.adaptive_strength
    /\ AdaptiveFactor(bitnet_calculate_content_complexity(
           call.weights, Len(call.weights))) > 2 * FactorDen
    /\ call.ret = 2 * g_dithering_config.dithering_strength * FactorDen

\* C5: applyOrderedDithering with a null config or a config that is not
\* enabled leaves the buffer and the engine state unchanged.
C5_DisabledIsNoOp ==
    (/\ call.live
     /\ call.op = "applyOrderedDithering"
     /\ (call.cfg.null \/ ~call.cfg.v.enable_dithering))
        => /\ call.data = Before
           /\ Engine = call.pre

C5_Witness ==
    /\ call.live
    /\ call.op = "applyOrderedDithering"
    /\ ~call.cfg.null
    /\ ~call.cfg.v.enable_dithering
    /\ call.cfg.v.adaptive_strength
    /\ g_dithering_initialized
    /\ Len(call.weights) > 16

\* C6: applyOrderedDither adds (pattern[i mod patternSize^2] - 0.5)*strength
\* to data[i]; the lookup index lies in [0, patternSize^2) and equals
\* i mod patternSize^2; elements i and i + patternSize^2 get the same offset;
\* [1,1,1,1] with the 4x4 table and strength 1.0 becomes
\* [0.5, 1.0, 0.625, 1.125].
C6_OffsetByTiledPattern ==
    (call.live /\ call.op = "orderedDither")
        => LET area == call.matrix_size * call.matrix_size
               size == Len(call.weights)
           IN /\ \A i \in 0..(size - 1) :
                   /\ BayerIdx(i, call.matrix_size) \in 0..(area - 1)
                   /\ BayerIdx(i, call.matrix_size) = i % area
                   /\ call.data[i + 1] =
                        Before[i + 1]
                          + (Table(call.matrix_size)[(i % area) + 1] - (PatDen \div 2))
                              * (call.strength * FactorDen)
                   /\ (i + area < size)
                        => call.data[i + area + 1] - Before[i + area + 1]
                             = call.data[i + 1] - Before[i + 1]
              /\ (/\ call.weights = <<1, 1, 1, 1>>
                  /\ call.matrix_size = 4
                  /\ call.strength = StrengthDen)
                    => call.data = <<DataScale \div 2, DataScale,
                                     (5 * DataScale) \div 8, (9 * DataScale) \div 8>>

C6_Witness ==
    /\ call.live
    /\ call.op = "orderedDither"
    /\ call.matrix_size = 8
    /\ Len(call.weights) = 65
    /\ call.data[65] - Before[65] = call.data[1] - Before[1]
    /\ call.data[65] # Before[65]

\* C7: cleanup() changes only the initialized flag and keeps the config;
\* cleanup() and then init() leaves the default config and initialized = true.
C7_CleanupThenInit ==
    /\ (call.live /\ call.op = "cleanup")
          => /\ ~g_dithering_initialized
             /\ g_dithering_config = call.pre.config
             /\ g_dithering_metrics = call.pre.metrics
    /\ (call.live /\ call.op = "init" /\ call.prev = "cleanup")
          => /\ g_dithering_config = DefaultConfig
             /\ g_dithering_initialized

C7_Witness ==
    /\ call.live
    /\ call.op = "init"
    /\ call.prev = "cleanup"
    /\ call.pre.config # DefaultConfig
    /\ g_dithering_config = DefaultConfig
    /\ g_dithering_initialized

\* C8 as stated: from every reachable state init() returns with the default
\* config installed and initialized = true.
C8_InitInstallsDefaults ==
    (call.live /\ call.op = "init")
        => /\ g_dithering_config = DefaultConfig
           /\ g_dithering_initialized

\* C8 amended: init() returns with initialized = true; it installs the
\* default config and metrics when the engine was not initialized, and leaves
\* config and metrics as they were when it already was.
C8_InitOnlyWhenUninitialized ==
    (call.live /\ call.op = "init")
        => /\ g_dithering_initialized
           /\ IF call.pre.initialized
                 THEN /\ g_dithering_config = call.pre.config
                      /\ g_dithering_metrics = call.pre.metrics
                 ELSE /\ g_dithering_config = DefaultConfig
                      /\ g_dithering_metrics = InitMetrics

C8_Witness ==
    /\ call.live
    /\ call.op = "init"
    /\ call.pre.initialized
    /\ g_dithering_config # DefaultConfig
    /\ g_dithering_initialized

\* C9: in the per-token branch element t*hiddenSize + j receives
\* (BAYER_8X8[j mod 64] - 0.5) times the strength resolved from base 0.05
\* for that segment.
C9_TokenSegmentsFromFineBase ==
    (/\ call.live
     /\ call.op = "enhanceResolutionDithering"
     /\ call.pre.initialized
     /\ call.pre.config.resolution_enhancement
     /\ call.pre.config.enable_dithering
     /\ Len(call.weights) \div call.hidden_size = call.sequence_length
     /\ Len(call.weights) % call.hidden_size = 0)
        => \A t \in 0..(call.sequence_length - 1), j \in 0..(call.hidden_size - 1) :
              call.data[t * call.hidden_size + j + 1] =
                 Before[t * call.hidden_size + j + 1]
                   + (BAYER_8X8[(j % 64) + 1] - (PatDen \div 2))
                       * Resolved(1, call.pre.config.adaptive_strength,
                                  SubSeq(call.weights, t * call.hidden_size + 1,
                                         (t + 1) * call.hidden_size))

\* C10: enhanceResolutionDithering reads and writes only buffer indices in
\* [0, size).
C10_StaysInsideBuffer ==
    (call.live /\ call.op = "enhanceResolutionDithering")
        => call.touched \subseteq 0..(Len(call.weights) - 1)

====
